---- MODULE Spec2Model ----
(***************************************************************************)
(* State-machine model of thematic_report_2023/utils.py: the ICPW template *)
(* import (process_template) and its stages.                               *)
(*                                                                         *)
(* Conventions                                                             *)
(*   - a text is a sequence of one-character strings (<<"<","5">>);        *)
(*   - a float is an exact fraction <<n, d>> in lowest terms, d > 0, and   *)
(*     NaN is the empty tuple (binary rounding is not modelled);           *)
(*   - a dataframe is a sequence of records, in row order;                 *)
(*   - a missing integer id (NaN after a left merge) is NullId.            *)
(***************************************************************************)
EXTENDS Integers, Sequences, FiniteSets, TLC

VARIABLES
    xl,          \* the template file: [headers, rows]
    dups,        \* process_template argument 'dups'
    dry_run,     \* process_template argument 'dry_run'
    pc,          \* the stage of process_template that runs next
    df,          \* the dataframe handed from stage to stage
    ws_df,       \* the water sample dataframe returned by upload_samples
    samples,     \* table resa2.water_samples
    chem,        \* table resa2.water_chemistry_values2
    err,         \* the exception that aborted the run, if any
    samples0,    \* resa2.water_samples when the current run started
    chem0,       \* resa2.water_chemistry_values2 when the current run started
    dry_passed   \* a dry run of the same template completed before this run

vars == <<xl, dups, dry_run, pc, df, ws_df, samples, chem, err,
          samples0, chem0, dry_passed>>

-----------------------------------------------------------------------------
(* Bounds of the model *)

MaxRows == 2        \* data rows of a template
MaxTextLen == 3     \* characters of a value cell in SpecLod

-----------------------------------------------------------------------------
(* Generic helpers *)

NaN == <<>>
NullId == -1
NoFlag == "nan"

Range(s) == {s[i] : i \in 1..Len(s)}

RECURSIVE Gcd(_, _)
Gcd(a, b) == IF b = 0 THEN a ELSE Gcd(b, a % b)

Abs(n) == IF n < 0 THEN -n ELSE n

\* the fraction n/d (d > 0) in lowest terms
Frac(n, d) == LET g == Gcd(Abs(n), d) IN <<n \div g, d \div g>>

RECURSIVE Pow10(_)
Pow10(k) == IF k = 0 THEN 1 ELSE 10 * Pow10(k - 1)

\* the rows of s at the positions in keep, in order (boolean indexing)
RowsAt(s, keep) ==
    LET F[i \in 0..Len(s)] ==
            IF i = 0 THEN <<>>
            ELSE IF i \in keep THEN Append(F[i - 1], s[i]) ELSE F[i - 1]
    IN F[Len(s)]

RECURSIVE Flatten(_)
\* concatenation of a sequence of sequences
Flatten(ss) == IF ss = <<>> THEN <<>> ELSE Head(ss) \o Flatten(Tail(ss))

-----------------------------------------------------------------------------
(* extract_lod_flags: the regular expression and the float conversion *)

Digits == {"0", "1", "2", "3", "4", "5", "6", "7", "8", "9"}

DigitVal(c) == CHOOSE v \in 0..9 :
    c = <<"0", "1", "2", "3", "4", "5", "6", "7", "8", "9">>[v + 1]

RECURSIVE DigitRun(_, _)
\* how many digits s holds from position i on (the greedy \d*)
DigitRun(s, i) ==
    IF i <= Len(s) /\ s[i] \in Digits THEN 1 + DigitRun(s, i + 1) ELSE 0

\* first alternative at i, [-+]?\d*\.\d+ : the end of the match, 0 if none
DecimalEnd(s, i) ==
    LET j == IF i <= Len(s) /\ s[i] \in {"-", "+"} THEN i + 1 ELSE i
        k == j + DigitRun(s, j)
        m == DigitRun(s, k + 1)
    IN IF k <= Len(s) /\ s[k] = "." /\ m >= 1 THEN k + m ELSE 0

\* second alternative at i, \d+ : the end of the match, 0 if none
IntegerEnd(s, i) == IF DigitRun(s, i) >= 1 THEN i + DigitRun(s, i) - 1 ELSE 0

MatchEnd(s, i) == IF DecimalEnd(s, i) # 0 THEN DecimalEnd(s, i) ELSE IntegerEnd(s, i)

\* str.extract: the first match of ([-+]?\d*\.\d+|\d+) in s, <<>> if none
RegexExtract(s) ==
    LET starts == {i \in 1..Len(s) : MatchEnd(s, i) # 0}
    IN IF starts = {} THEN <<>>
       ELSE LET i == CHOOSE a \in starts : \A b \in starts : a <= b
            IN SubSeq(s, i, MatchEnd(s, i))

RECURSIVE DigitsValue(_)
DigitsValue(s) ==
    IF s = <<>> THEN 0
    ELSE 10 * DigitsValue(SubSeq(s, 1, Len(s) - 1)) + DigitVal(s[Len(s)])

\* float() of a matched text; NaN for no match
ToFloat(m) ==
    IF m = <<>> THEN NaN
    ELSE LET neg  == m[1] = "-"
             body == IF m[1] \in {"-", "+"} THEN Tail(m) ELSE m
             n    == DigitRun(body, 1)
             frac == IF n < Len(body) THEN SubSeq(body, n + 2, Len(body)) ELSE <<>>
             num  == DigitsValue(SubSeq(body, 1, n)) * Pow10(Len(frac)) + DigitsValue(frac)
         IN Frac(IF neg THEN -num ELSE num, Pow10(Len(frac)))

\* the nested function f of extract_lod_flags
LodFlag(s) ==
    IF \E i \in 1..Len(s) : s[i] = "<" THEN "<"
    ELSE IF \E i \in 1..Len(s) : s[i] = ">" THEN ">"
    ELSE NoFlag

LodValue(s) == ToFloat(RegexExtract(s))

-----------------------------------------------------------------------------
(* read_data_template, merge_multi_header *)

\* f"{i[0]}_{i[1]}" followed by replace("_-", ""), on tokens
MergeHeader(h) == IF h[2] = "-" THEN <<h[1]>> ELSE <<h[1], "_", h[2]>>

\* the texts pd.to_datetime(x, format="%Y.%m.%d") accepts, with the day they denote
DateOf == [t \in {"2020.01.01", "2020.01.02"} |->
              IF t = "2020.01.01" THEN 1 ELSE 2]

ReadFails(x) == \E i \in 1..Len(x.rows) : x.rows[i].date \notin DOMAIN DateOf

\* the dataframe read from the template; column 'Name' is deleted by the caller
ReadDataTemplate(x) ==
    [cols |-> [j \in 1..Len(x.headers) |-> MergeHeader(x.headers[j])],
     rows |-> [i \in 1..Len(x.rows) |->
                 [code |-> x.rows[i].code,
                  date |-> DateOf[x.rows[i].date],
                  vals |-> x.rows[i].vals]]]

-----------------------------------------------------------------------------
(* map_method_ids *)

\* the entries of meth_map for the parameter columns the model's templates use
MethMap ==
    (<<"pH">> :> 10268) @@ (<<"Ca", "_", "mg/L">> :> 10251)
    @@ (<<"Mg", "_", "mg/L">> :> 10261) @@ (<<"TEMP", "_", "C">> :> 10272)

\* a renamed column label: an integer method id, or the label left as it was
RenameColumn(c) ==
    IF c \in DOMAIN MethMap
    THEN [isInt |-> TRUE, id |-> MethMap[c], name |-> <<>>]
    ELSE [isInt |-> FALSE, id |-> NullId, name |-> c]

MapMethodIds(d) ==
    [cols |-> [j \in 1..Len(d.cols) |-> RenameColumn(d.cols[j])], rows |-> d.rows]

-----------------------------------------------------------------------------
(* map_station_ids *)

\* resa2.stations: SELECT station_code AS code, station_id
Stations == <<[code |-> "A", station_id |-> 1], [code |-> "B", station_id |-> 2]>>

\* the rows a template row becomes in the left merge on 'code'
StationMatches(r, stn) ==
    LET hits == {k \in 1..Len(stn) : stn[k].code = r.code}
    IN IF hits = {}
       THEN <<[station_id |-> NullId, date |-> r.date, vals |-> r.vals]>>
       ELSE [k \in 1..Cardinality(hits) |->
                [station_id |-> RowsAt(stn, hits)[k].station_id,
                 date |-> r.date, vals |-> r.vals]]

\* pd.merge(df, stn_df, how="left", on="code") and del df["code"]
MapStationIds(d, stn) ==
    [cols |-> d.cols,
     rows |-> Flatten([i \in 1..Len(d.rows) |-> StationMatches(d.rows[i], stn)])]

\* the assertion of map_station_ids fails
StationAssertFails(d) == \E i \in 1..Len(d.rows) : d.rows[i].station_id = NullId

-----------------------------------------------------------------------------
(* wide_to_long *)

\* pd.melt: one row per (column, row), column by column
Melt(d) ==
    Flatten([j \in 1..Len(d.cols) |->
               [i \in 1..Len(d.rows) |->
                   [station_id |-> d.rows[i].station_id,
                    date       |-> d.rows[i].date,
                    method_id  |-> d.cols[j],
                    value      |-> d.rows[i].vals[j]]]])

\* dropna(subset="value")
DropNaValue(rows) == RowsAt(rows, {i \in 1..Len(rows) : rows[i].value # NaN})

\* astype(int) raises on a label that is not an integer
AsTypeIntFails(rows) == \E i \in 1..Len(rows) : ~rows[i].method_id.isInt

WideToLong(d) ==
    LET rows == DropNaValue(Melt(d))
    IN [i \in 1..Len(rows) |->
           [station_id |-> rows[i].station_id,
            date       |-> rows[i].date,
            method_id  |-> rows[i].method_id.id,
            value      |-> rows[i].value]]

-----------------------------------------------------------------------------
(* extract_lod_flags on the long dataframe *)

ExtractLodFlags(rows) ==
    [i \in 1..Len(rows) |->
        [station_id |-> rows[i].station_id,
         date       |-> rows[i].date,
         method_id  |-> rows[i].method_id,
         value      |-> LodValue(rows[i].value),
         flag1      |-> LodFlag(rows[i].value)]]

-----------------------------------------------------------------------------
(* remove_duplicates *)

KeyOf(r) == <<r.station_id, r.date, r.method_id>>

\* lexicographic order of the group keys (groupby sorts its keys)
KeyLess(a, b) ==
    \/ a[1] < b[1]
    \/ a[1] = b[1] /\ a[2] < b[2]
    \/ a[1] = b[1] /\ a[2] = b[2] /\ a[3] < b[3]

RECURSIVE SortKeys(_)
SortKeys(S) ==
    IF S = {} THEN <<>>
    ELSE LET m == CHOOSE a \in S : \A b \in S \ {a} : KeyLess(a, b)
         IN <<m>> \o SortKeys(S \ {m})

\* the rows of one group, in input order
GroupRows(rows, k) == RowsAt(rows, {i \in 1..Len(rows) : KeyOf(rows[i]) = k})

AddFrac(a, b) == Frac(a[1] * b[2] + b[1] * a[2], a[2] * b[2])

RECURSIVE SumValues(_)
\* the sum of the values of rows that are not NaN, and how many they are
SumValues(g) ==
    IF g = <<>> THEN [sum |-> <<0, 1>>, count |-> 0]
    ELSE LET rest == SumValues(Tail(g))
         IN IF Head(g).value = NaN THEN rest
            ELSE [sum |-> AddFrac(Head(g).value, rest.sum), count |-> rest.count + 1]

\* MeanValue with a fault: a NaN member counts in the divisor
MeanValueOverAllRows(g) ==
    LET s == SumValues(g)
    IN IF s.count = 0 THEN NaN ELSE Frac(s.sum[1], s.sum[2] * Len(g))

\* aggregate "mean": NaN is skipped; NaN when nothing is left
MeanValue(g) ==
    LET s == SumValues(g)
    IN IF s.count = 0 THEN NaN ELSE Frac(s.sum[1], s.sum[2] * s.count)

\* FirstFlag with a fault: the flag of the first row, null or not
FirstFlagOfFirstRow(g) == g[1].flag1

\* aggregate "first": the first flag of the group that is not null
FirstFlag(g) ==
    LET set == {i \in 1..Len(g) : g[i].flag1 # NoFlag}
    IN IF set = {} THEN NoFlag
       ELSE g[CHOOSE i \in set : \A j \in set : i <= j].flag1

\* ValidHow with a fault: the policy is validated only when data is to be written
ValidHowUnlessDryRun(how) == dry_run \/ how \in {"mean", "drop"}

\* the assertion on 'how'
ValidHow(how) == how \in {"mean", "drop"}

GroupByMean(rows) ==
    LET keys == SortKeys({KeyOf(rows[i]) : i \in 1..Len(rows)})
    IN [n \in 1..Len(keys) |->
           [station_id |-> keys[n][1],
            date       |-> keys[n][2],
            method_id  |-> keys[n][3],
            value      |-> MeanValue(GroupRows(rows, keys[n])),
            flag1      |-> FirstFlag(GroupRows(rows, keys[n]))]]

\* DropDuplicateKeys with a fault: method_id is left out of the subset
DropDuplicateStationDates(rows) ==
    RowsAt(rows, {i \in 1..Len(rows) :
                    \A j \in 1..(i - 1) :
                        <<rows[j].station_id, rows[j].date>>
                            # <<rows[i].station_id, rows[i].date>>})

\* drop_duplicates(subset=[station_id, date, method_id], keep="first")
DropDuplicateKeys(rows) ==
    RowsAt(rows, {i \in 1..Len(rows) :
                    \A j \in 1..(i - 1) : KeyOf(rows[j]) # KeyOf(rows[i])})

RemoveDuplicates(rows, how) ==
    IF how = "mean" THEN GroupByMean(rows) ELSE DropDuplicateKeys(rows)

-----------------------------------------------------------------------------
(* upload_samples *)

\* df[["station_id", "date"]].drop_duplicates(), with depth1 = depth2 = 0
SampleFrame(rows) ==
    LET first == {i \in 1..Len(rows) :
                    \A j \in 1..(i - 1) :
                        <<rows[j].station_id, rows[j].date>>
                            # <<rows[i].station_id, rows[i].date>>}
        kept == RowsAt(rows, first)
    IN [n \in 1..Len(kept) |->
           [station_id |-> kept[n].station_id, date |-> kept[n].date,
            depth1 |-> 0, depth2 |-> 0]]

\* the largest water_sample_id of the table, 0 for an empty table
MaxSampleId(tbl) ==
    IF tbl = <<>> THEN 0
    ELSE CHOOSE m \in {tbl[i].water_sample_id : i \in 1..Len(tbl)} :
             \A i \in 1..Len(tbl) : tbl[i].water_sample_id <= m

\* to_sql(..., if_exists="append"): the database numbers the new rows
InsertSamples(tbl, ws) ==
    tbl \o [n \in 1..Len(ws) |->
               [water_sample_id |-> MaxSampleId(tbl) + n,
                station_id      |-> ws[n].station_id,
                sample_date     |-> ws[n].date,
                depth1          |-> ws[n].depth1,
                depth2          |-> ws[n].depth2]]

\* SELECT water_sample_id, station_id, sample_date AS "date" ... WHERE station_id IN
ReadSamples(tbl, rows) ==
    LET stn_ids == {rows[i].station_id : i \in 1..Len(rows)}
        sel == RowsAt(tbl, {i \in 1..Len(tbl) : tbl[i].station_id \in stn_ids})
    IN [n \in 1..Len(sel) |->
           [water_sample_id |-> sel[n].water_sample_id,
            station_id      |-> sel[n].station_id,
            date            |-> sel[n].sample_date]]

\* the rows an observation becomes in the left merge on (station_id, date)
SampleMatches(r, ws) ==
    LET hits == RowsAt(ws, {k \in 1..Len(ws) :
                              ws[k].station_id = r.station_id /\ ws[k].date = r.date})
    IN IF hits = <<>>
       THEN <<[station_id |-> r.station_id, date |-> r.date,
               method_id |-> r.method_id, value |-> r.value, flag1 |-> r.flag1,
               water_sample_id |-> NullId]>>
       ELSE [k \in 1..Len(hits) |->
                [station_id |-> r.station_id, date |-> r.date,
                 method_id |-> r.method_id, value |-> r.value, flag1 |-> r.flag1,
                 water_sample_id |-> hits[k].water_sample_id]]

\* pd.merge(df, ws_df, how="left", on=["station_id", "date"])
MergeSampleIds(rows, ws) ==
    Flatten([i \in 1..Len(rows) |-> SampleMatches(rows[i], ws)])

\* df[["water_sample_id", "station_id", "date"]].drop_duplicates()
ReturnedSamples(rows) ==
    LET T(i) == <<rows[i].water_sample_id, rows[i].station_id, rows[i].date>>
        kept == RowsAt(rows, {i \in 1..Len(rows) : \A j \in 1..(i - 1) : T(j) # T(i)})
    IN [n \in 1..Len(kept) |->
           [water_sample_id |-> kept[n].water_sample_id,
            station_id |-> kept[n].station_id, date |-> kept[n].date]]

\* SamplesWritten with a fault: the write is held back when a value is NaN
SamplesWrittenIfNoNaN(tbl, rows, dry) ==
    IF dry \/ \E i \in 1..Len(rows) : rows[i].value = NaN
    THEN tbl ELSE InsertSamples(tbl, SampleFrame(rows))

\* the table after upload_samples' write, which dry_run suppresses
SamplesWritten(tbl, rows, dry) ==
    IF dry THEN tbl ELSE InsertSamples(tbl, SampleFrame(rows))

\* assert pd.isna(df["water_sample_id"]).sum() == 0, outside dry_run only
SampleAssertFails(rows, dry) ==
    ~dry /\ \E i \in 1..Len(rows) : rows[i].water_sample_id = NullId

-----------------------------------------------------------------------------
(* upload_chemistry *)

\* ChemistryAssertFails with a fault: the value is not checked
ChemistryAssertIdsOnly(rows, dry) ==
    ~dry /\ \E i \in 1..Len(rows) :
                \/ rows[i].method_id = NullId
                \/ rows[i].water_sample_id = NullId

\* the three assertions before the write, outside dry_run only
ChemistryAssertFails(rows, dry) ==
    ~dry /\ \E i \in 1..Len(rows) :
                \/ rows[i].method_id = NullId
                \/ rows[i].water_sample_id = NullId
                \/ rows[i].value = NaN

\* del df["station_id"], df["date"]
ChemistryFrame(rows) ==
    [i \in 1..Len(rows) |->
        [water_sample_id |-> rows[i].water_sample_id,
         method_id       |-> rows[i].method_id,
         value           |-> rows[i].value,
         flag1           |-> rows[i].flag1]]

\* ChemistryWritten with a fault: dry_run is ignored
ChemistryWrittenAlways(tbl, rows, dry) == tbl \o ChemistryFrame(rows)

\* the table after upload_chemistry's write, which dry_run suppresses
ChemistryWritten(tbl, rows, dry) ==
    IF dry THEN tbl ELSE tbl \o ChemistryFrame(rows)

-----------------------------------------------------------------------------
(* The inputs of the model *)

\* the two-level headers of the parameter columns; Zn_mg/L is not in meth_map
HeaderChoices ==
    { << <<"pH", "-">>, <<"Ca", "mg/L">> >>,
      << <<"pH", "-">>, <<"Zn", "mg/L">> >> }

\* station codes (X is in no row of resa2.stations) and date cells
Codes == {"A", "B", "X"}
DateTexts == {"2020.01.01", "2020.01.02"}
BadDateText == "01/02/2020"

\* the value cells of a data row, one per parameter column; <<>> is an empty cell.
\* Every row holds a pH value and a date, so the long dataframe is never empty
\* and no key holds a null.
CellChoices ==
    { << <<"7", ".", "1">>, <<>> >>,
      << <<"<", "7", ".", "3">>, <<"3">> >>,
      << <<">", "9">>, <<>> >>,
      << <<"x">>, <<>> >> }

TemplateRows ==
    [code : Codes, date : DateTexts, vals : CellChoices]
    \cup {[code |-> "A", date |-> BadDateText, vals |-> << <<"7", ".", "1">>, <<>> >>]}

SeqsUpTo(S, n) == UNION {[1..k -> S] : k \in 1..n}

Templates == [headers : HeaderChoices, rows : SeqsUpTo(TemplateRows, MaxRows)]

\* the database before the import: empty, or holding a sample of station 1 on day 1
PriorDb ==
    { [samples |-> <<>>, chem |-> <<>>],
      [samples |-> <<[water_sample_id |-> 1, station_id |-> 1, sample_date |-> 1,
                      depth1 |-> 0, depth2 |-> 0]>>,
       chem    |-> <<[water_sample_id |-> 1, method_id |-> 10268,
                      value |-> <<71, 10>>, flag1 |-> NoFlag]>>] }

HowChoices == {"mean", "drop", "max"}

\* the characters of a value cell in SpecLod
Chars == {"<", ">", "-", "+", ".", "5", "2", "x"}

-----------------------------------------------------------------------------
(* process_template, stage by stage *)

NoErr == [stage |-> "", type |-> "", msg |-> "", listed |-> {}]

Start(x, db) ==
    /\ xl = x
    /\ pc = "read_data_template"
    /\ df = <<>>
    /\ ws_df = <<>>
    /\ samples = db.samples
    /\ chem = db.chem
    /\ samples0 = db.samples
    /\ chem0 = db.chem
    /\ err = NoErr
    /\ dry_passed = FALSE

Init ==
    /\ \E x \in Templates, db \in PriorDb : Start(x, db)
    /\ dups \in HowChoices
    /\ dry_run \in BOOLEAN

\* one template row whose pH cell is any text of up to MaxTextLen characters
InitLod ==
    /\ \E s \in SeqsUpTo(Chars, MaxTextLen) :
          Start([headers |-> << <<"pH", "-">> >>,
                 rows |-> <<[code |-> "A", date |-> "2020.01.01", vals |-> <<s>>]>>],
                [samples |-> <<>>, chem |-> <<>>])
    /\ dups \in {"mean", "drop"}
    /\ dry_run = TRUE

\* an exception leaves process_template: nothing is undone
Raise(stage, type, msg) ==
    /\ pc' = "failed"
    /\ err' = [stage |-> stage, type |-> type, msg |-> msg, listed |-> {}]
    /\ UNCHANGED <<xl, dups, dry_run, df, ws_df, samples, chem,
                   samples0, chem0, dry_passed>>

\* the stage returns its dataframe and the next stage is due
Return(next, d) ==
    /\ pc' = next
    /\ df' = d
    /\ UNCHANGED <<xl, dups, dry_run, ws_df, samples, chem, err,
                   samples0, chem0, dry_passed>>

ReadStage ==
    /\ pc = "read_data_template"
    /\ IF ReadFails(xl)
       THEN Raise("read_data_template", "ValueError", "")
       ELSE Return("map_method_ids", ReadDataTemplate(xl))

MapMethodStage ==
    /\ pc = "map_method_ids"
    /\ Return("map_station_ids", MapMethodIds(df))

MapStationStage ==
    /\ pc = "map_station_ids"
    /\ LET d == MapStationIds(df, Stations)
       IN IF StationAssertFails(d)
          THEN Raise("map_station_ids", "AssertionError",
                     "Some station codes cannot be matched to IDs.")
          ELSE Return("wide_to_long", d)

WideToLongStage ==
    /\ pc = "wide_to_long"
    /\ IF AsTypeIntFails(DropNaValue(Melt(df)))
       THEN Raise("wide_to_long", "ValueError", "")
       ELSE Return("extract_lod_flags", WideToLong(df))

ExtractStage ==
    /\ pc = "extract_lod_flags"
    /\ Return("remove_duplicates", ExtractLodFlags(df))

DedupStage ==
    /\ pc = "remove_duplicates"
    /\ IF ~ValidHow(dups)
       THEN Raise("remove_duplicates", "AssertionError",
                  "'how' must be either 'mean' or 'drop'.")
       ELSE Return("upload_samples", RemoveDuplicates(df, dups))

UploadSamplesStage ==
    /\ pc = "upload_samples"
    /\ LET tbl    == SamplesWritten(samples, df, dry_run)
           merged == MergeSampleIds(df, ReadSamples(tbl, df))
       IN /\ samples' = tbl
          /\ IF SampleAssertFails(merged, dry_run)
             THEN /\ pc' = "failed"
                  /\ err' = [stage |-> "upload_samples", type |-> "AssertionError",
                             msg |-> "", listed |-> {}]
                  /\ UNCHANGED <<df, ws_df>>
             ELSE /\ pc' = "upload_chemistry"
                  /\ df' = merged
                  /\ ws_df' = ReturnedSamples(merged)
                  /\ err' = err
    /\ UNCHANGED <<xl, dups, dry_run, chem, samples0, chem0, dry_passed>>

UploadChemistryStage ==
    /\ pc = "upload_chemistry"
    /\ IF ChemistryAssertFails(df, dry_run)
       THEN Raise("upload_chemistry", "AssertionError", "")
       ELSE /\ pc' = "done"
            /\ df' = ChemistryFrame(df)
            /\ chem' = ChemistryWritten(chem, df, dry_run)
            /\ UNCHANGED <<xl, dups, dry_run, ws_df, samples, err,
                           samples0, chem0, dry_passed>>

\* the operator's procedure: after a dry run that completed, the same call with
\* dry_run=False
RealRunAfterDryRun ==
    /\ pc = "done"
    /\ dry_run
    /\ pc' = "read_data_template"
    /\ dry_run' = FALSE
    /\ dry_passed' = TRUE
    /\ df' = <<>>
    /\ ws_df' = <<>>
    /\ UNCHANGED <<xl, dups, samples, chem, err, samples0, chem0>>

Next ==
    \/ ReadStage
    \/ MapMethodStage
    \/ MapStationStage
    \/ WideToLongStage
    \/ ExtractStage
    \/ DedupStage
    \/ UploadSamplesStage
    \/ UploadChemistryStage
    \/ RealRunAfterDryRun

Spec == Init /\ [][Next]_vars

SpecLod == InitLod /\ [][Next]_vars

-----------------------------------------------------------------------------
(* What the claims speak about *)

\* the long observations remove_duplicates receives, recomputed from the template
LongObs ==
    ExtractLodFlags(WideToLong(
        MapStationIds(MapMethodIds(ReadDataTemplate(xl)), Stations)))

\* the deduplicated observations upload_samples receives
DedupObs == RemoveDuplicates(LongObs, dups)

KeysOf(rows) == {KeyOf(rows[i]) : i \in 1..Len(rows)}

SamplePairs(rows) == {<<rows[i].station_id, rows[i].date>> : i \in 1..Len(rows)}

\* the members of the group of key k, in input order
Members(k) == GroupRows(LongObs, k)

EarlyStages ==
    {"read_data_template", "map_method_ids", "map_station_ids", "wide_to_long",
     "extract_lod_flags", "remove_duplicates"}

UploadStages == {"upload_samples", "upload_chemistry"}

FailedIn(stages) == pc = "failed" /\ err.stage \in stages

\* remove_duplicates has just returned
Deduplicated == pc = "upload_samples"

-----------------------------------------------------------------------------
RECURSIVE DenProduct(_)
DenProduct(g) ==
    IF g = <<>> THEN 1
    ELSE (IF Head(g).value = NaN THEN 1 ELSE Head(g).value[2]) * DenProduct(Tail(g))

RECURSIVE ScaledTotal(_, _)
\* the sum of the values of g that are not NaN, each times L
ScaledTotal(g, L) ==
    IF g = <<>> THEN 0
    ELSE (IF Head(g).value = NaN THEN 0
          ELSE Head(g).value[1] * (L \div Head(g).value[2]))
         + ScaledTotal(Tail(g), L)

NumberOfValues(g) == Cardinality({i \in 1..Len(g) : g[i].value # NaN})

\* C2: under 'mean' the value of an output row is the arithmetic mean of the
\* values of its group, sum / count over the members that hold a value (NaN when
\* no member holds one).
MeanIsArithmeticMean ==
    (Deduplicated /\ dups = "mean") =>
        \A i \in 1..Len(df) :
            LET g == Members(KeyOf(df[i]))
                L == DenProduct(g)
            IN IF NumberOfValues(g) = 0 THEN df[i].value = NaN
               ELSE /\ df[i].value # NaN
                    /\ df[i].value[1] * NumberOfValues(g) * L
                          = ScaledTotal(g, L) * df[i].value[2]

\* C2 witness: 7.1 and 7.3 of one key averaged to 7.2
MeanOfTwoValues ==
    /\ Deduplicated
    /\ dups = "mean"
    /\ \E i \in 1..Len(df) :
          /\ Len(Members(KeyOf(df[i]))) = 2
          /\ df[i].value = <<36, 5>>

\* C3: with dry_run = True neither table changes, in any state of the run.
DryRunWritesNothing == dry_run => (samples = samples0 /\ chem = chem0)

\* C3 witness: a dry run that went through both upload stages
DryRunCompleted ==
    /\ dry_run
    /\ pc = "done"
    /\ Len(df) > 0
    /\ samples0 # <<>>

\* C4 as claimed: a completed non-dry-run import grows water_samples by the number
\* of distinct (station_id, date) of the deduplicated observations and the
\* chemistry table by the number of deduplicated observations.
ImportGrowsTablesExactly ==
    (pc = "done" /\ ~dry_run) =>
        /\ Len(samples) = Len(samples0) + Cardinality(SamplePairs(DedupObs))
        /\ Len(chem) = Len(chem0) + Len(DedupObs)

\* the station codes of the template that resa2.stations does not hold
UnmatchedCodes ==
    {xl.rows[i].code : i \in 1..Len(xl.rows)}
        \ {Stations[k].code : k \in 1..Len(Stations)}

\* map_station_ids has run
StationsMapped ==
    \/ pc \in {"wide_to_long", "extract_lod_flags", "remove_duplicates",
               "upload_samples", "upload_chemistry", "done"}
    \/ FailedIn({"map_station_ids", "wide_to_long", "remove_duplicates",
                 "upload_samples", "upload_chemistry"})

\* C5 as claimed: with an unmatched station code the run fails in map_station_ids
\* with a failure that lists the offending codes, before any write; with every
\* code matched the stage does not fail.
UnmatchedStationListed ==
    /\ (StationsMapped /\ UnmatchedCodes # {}) =>
          /\ FailedIn({"map_station_ids"})
          /\ err.listed = UnmatchedCodes
          /\ samples = samples0 /\ chem = chem0
    /\ (StationsMapped /\ UnmatchedCodes = {}) => ~FailedIn({"map_station_ids"})

\* the value cell of the one-row, one-column template of SpecLod
CellText == xl.rows[1].vals[1]

\* a number with its sign: [-+]? applied to both alternatives of the pattern
SignedEnd(s, i) ==
    IF DecimalEnd(s, i) # 0 THEN DecimalEnd(s, i)
    ELSE IF i <= Len(s) /\ s[i] \in {"-", "+"} THEN IntegerEnd(s, i + 1)
    ELSE IntegerEnd(s, i)

\* the number the claimed pattern (optional sign, digits, optional fraction) finds
SignedExtract(s) ==
    LET starts == {i \in 1..Len(s) : SignedEnd(s, i) # 0}
    IN IF starts = {} THEN <<>>
       ELSE LET i == CHOOSE a \in starts : \A b \in starts : a <= b
            IN SubSeq(s, i, SignedEnd(s, i))

\* C6 as claimed: the flag is '<' if the text holds '<', else '>' if it holds '>',
\* else none; the value is the number matched with its sign, a signed integer
\* keeping its sign, and null when the text holds no number.
FlagAndSignedValue ==
    (pc = "remove_duplicates" /\ Len(xl.rows) = 1 /\ Len(xl.headers) = 1) =>
        /\ df[1].flag1 = (IF "<" \in Range(CellText) THEN "<"
                          ELSE IF ">" \in Range(CellText) THEN ">" ELSE NoFlag)
        /\ df[1].value = ToFloat(SignedExtract(CellText))

NoNullIn(rows) ==
    \A i \in 1..Len(rows) :
        /\ rows[i].method_id # NullId
        /\ rows[i].water_sample_id # NullId
        /\ rows[i].value # NaN

\* C7: no row with a null method_id, water_sample_id or value is ever in the
\* chemistry table; a non-dry-run that reaches the write holds no such row, and a
\* run stopped by the checks has written no chemistry row.
NoNullChemistryWritten ==
    /\ NoNullIn(chem)
    /\ (pc = "done" /\ ~dry_run) => NoNullIn(df)
    /\ FailedIn(UploadStages) => chem = chem0

\* C7 witness: the null check stopped a non-dry-run before the chemistry write
NullValueStoppedWrite ==
    /\ ~dry_run
    /\ FailedIn({"upload_chemistry"})
    /\ \E i \in 1..Len(df) : df[i].value = NaN
    /\ \E i \in 1..Len(df) : df[i].value # NaN

\* C7, the dry-run half: a dry run returns a table with null ids and a null value
DryRunReturnsNulls ==
    /\ dry_run
    /\ pc = "done"
    /\ \E i \in 1..Len(df) : df[i].value = NaN
    /\ \A i \in 1..Len(df) : df[i].water_sample_id = NullId

\* C8 as claimed: a dry run that completed implies that the real run of the same
\* template, policy and database does not abort.
DryRunSurfacesEveryError == dry_passed => pc # "failed"

\* C8 amended: after a dry run that completed, the real run passes every stage
\* up to the deduplication and the sample insert; it can abort only in the null
\* checks of upload_chemistry, which a dry run skips.
DryRunSurfacesEarlyErrors ==
    (dry_passed /\ pc = "failed") =>
        /\ err.stage = "upload_chemistry"
        /\ \E i \in 1..Len(df) : df[i].value = NaN

\* C8 witness: a real run aborted although its dry run had completed
RealRunFailedAfterDryRun ==
    /\ dry_passed
    /\ pc = "failed"
    /\ samples # samples0

\* the first member of the group of key k
FirstMember(k) == Members(k)[1]

\* C9 as claimed: under 'mean' the flag of an output row is the flag of the first
\* member of its group in input order, none included.
FlagOfFirstMember ==
    (Deduplicated /\ dups = "mean") =>
        \A i \in 1..Len(df) : df[i].flag1 = FirstMember(KeyOf(df[i])).flag1

\* C9 amended: under 'mean' the flag of an output row is the flag of the first
\* member of its group, in input order, that carries a qualifier; it is none only
\* when no member carries one.
FlagOfFirstFlaggedMember ==
    (Deduplicated /\ dups = "mean") =>
        \A i \in 1..Len(df) :
            LET g == Members(KeyOf(df[i]))
            IN IF \A n \in 1..Len(g) : g[n].flag1 = NoFlag
               THEN df[i].flag1 = NoFlag
               ELSE \E n \in 1..Len(g) :
                       /\ g[n].flag1 = df[i].flag1
                       /\ g[n].flag1 # NoFlag
                       /\ \A m \in 1..(n - 1) : g[m].flag1 = NoFlag

\* C9 witness: the first member is unflagged, a later one is flagged, and the
\* output row carries the later flag
LaterFlagTaken ==
    /\ Deduplicated
    /\ dups = "mean"
    /\ \E i \in 1..Len(df) :
          /\ FirstMember(KeyOf(df[i])).flag1 = NoFlag
          /\ df[i].flag1 = "<"

StageOrder ==
    <<"read_data_template", "map_method_ids", "map_station_ids", "wide_to_long",
      "extract_lod_flags", "remove_duplicates", "upload_samples",
      "upload_chemistry", "done">>

IsPrefix(s, t) == Len(s) <= Len(t) /\ SubSeq(t, 1, Len(s)) = s

\* one step of the run: the next stage, or the abort; the tables only grow, the
\* samples in upload_samples and the chemistry values in upload_chemistry
ForwardStep ==
    /\ pc' # pc =>
          \/ pc' = "failed" /\ pc \in Range(StageOrder) \ {"done"}
          \/ \E n \in 1..(Len(StageOrder) - 1) :
                pc = StageOrder[n] /\ pc' = StageOrder[n + 1]
          \/ pc = "done" /\ dry_run /\ ~dry_run' /\ pc' = StageOrder[1]
    /\ IsPrefix(samples, samples') /\ IsPrefix(chem, chem')
    /\ samples' # samples => pc = "upload_samples"
    /\ chem' # chem => (pc = "upload_chemistry" /\ pc' = "done")

\* where an abort leaves the tables
AbortLeavesTables ==
    /\ FailedIn(EarlyStages) => (samples = samples0 /\ chem = chem0)
    /\ (~dry_run /\ FailedIn(UploadStages)) =>
          /\ Len(samples) = Len(samples0) + Cardinality(SamplePairs(DedupObs))
          /\ SamplePairs(DedupObs) \subseteq
                {<<samples[i].station_id, samples[i].sample_date>> :
                    i \in (Len(samples0) + 1)..Len(samples)}
          /\ chem = chem0
    /\ chem # chem0 => pc = "done"

\* C10: the run is one forward sequence of the eight stages with no retry and no
\* compensation; the sample insert precedes the chemistry insert; an abort up to
\* the deduplication leaves both tables unchanged; a non-dry-run abort after the
\* sample insert leaves the inserted samples and no chemistry row.
ForwardOnlyNoCompensation == [][ForwardStep]_vars /\ []AbortLeavesTables

\* C10 witness: a non-dry-run aborted after the sample insert
AbortedAfterSampleInsert ==
    /\ ~dry_run
    /\ FailedIn(UploadStages)
    /\ Len(samples) > Len(samples0)
    /\ chem = chem0

====
